---- MODULE Spec2Model ----
(***************************************************************************)
(* Model of src/preprocess.py (parse_formula, is_valid_formula, the two    *)
(* aggregators, create_plotting_dataframe) and of plot_zoom_scatter in     *)
(* src/plot.py.                                                            *)
(*                                                                         *)
(* Every function of the program is a pure function of its arguments; the  *)
(* state machine records the last call: which function, with which         *)
(* arguments, and what it returned or raised.                              *)
(*                                                                         *)
(* Representation                                                          *)
(*   - a Python str is a sequence of one-character strings;                *)
(*   - a Python float is an exact non-negative rational <<n, d>> in lowest *)
(*     terms (d > 0): rounding of IEEE doubles is not modelled;            *)
(*   - a Python dict is the sequence of its items [k, v] in insertion      *)
(*     order;                                                              *)
(*   - a call's outcome is [kind |-> "return", value |-> v] or             *)
(*     [kind |-> "raise", exc |-> name].                                   *)
(***************************************************************************)
EXTENDS Integers, Sequences, FiniteSets, TLC

\* Longest formula string drawn as an input.
MaxLen == 4

\* Most rows of a data frame drawn as an input.
MaxRows == 2

-----------------------------------------------------------------------------
(* Characters and strings *)

Upper == {"H", "G"}
Lower == {"d"}
Digit == {"0", "1", "4"}
Dot == "."
\* The characters of the formulas drawn as inputs. A lower-case letter, a
\* digit or a '.' that follows no symbol belongs to no token: these are the
\* characters the scan skips.
Chars == Upper \cup Lower \cup {"0", "1"} \cup {Dot}

Formulas == UNION {[1..n -> Chars] : n \in 0..MaxLen}

DigitVal(c) == CASE c = "0" -> 0 [] c = "1" -> 1 [] c = "4" -> 4

-----------------------------------------------------------------------------
(* Python values *)

Return(v) == [kind |-> "return", value |-> v]
Raise(e) == [kind |-> "raise", exc |-> e]

RECURSIVE GCD(_, _)
GCD(a, b) == IF b = 0 THEN a ELSE GCD(b, a % b)

\* The float n/d, d > 0, n >= 0.
Float(n, d) == LET g == GCD(n, d) IN <<n \div g, d \div g>>
FromInt(n) == <<n, 1>>
FAdd(x, y) == Float(x[1] * y[2] + y[1] * x[2], x[2] * y[2])
FMul(x, y) == Float(x[1] * y[1], x[2] * y[2])
\* x / y for y # 0; the callers raise ZeroDivisionError themselves.
FDiv(x, y) == Float(x[1] * y[2], x[2] * y[1])
IsZero(x) == x[1] = 0

RECURSIVE Pow10(_)
Pow10(k) == IF k = 0 THEN 1 ELSE 10 * Pow10(k - 1)

\* dict.get(k, default)
RECURSIVE DictGet(_, _, _)
DictGet(d, k, default) ==
    IF d = <<>> THEN default
    ELSE IF Head(d).k = k THEN Head(d).v
    ELSE DictGet(Tail(d), k, default)

\* d[k] = v: an existing key keeps its place, a new key goes last.
DictSet(d, k, v) ==
    IF \E i \in 1..Len(d) : d[i].k = k
    THEN [i \in 1..Len(d) |-> IF d[i].k = k THEN [k |-> k, v |-> v] ELSE d[i]]
    ELSE Append(d, [k |-> k, v |-> v])

DictKeys(d) == {d[i].k : i \in 1..Len(d)}

\* sum(d.values()): Python's sum starts from the int 0.
RECURSIVE DictSum(_)
DictSum(d) == IF d = <<>> THEN FromInt(0) ELSE FAdd(Head(d).v, DictSum(Tail(d)))

-----------------------------------------------------------------------------
\* re.findall(pattern, formula): pattern is one upper-case letter, lower-case
\* letters, then digits, an optional '.', digits; two groups (elem, count).

\* First position at or after p whose character is not in class: the end of a
\* greedy cls* started at p.
RECURSIVE Star(_, _, _)
Star(s, p, cls) ==
    IF p <= Len(s) /\ s[p] \in cls THEN Star(s, p + 1, cls) ELSE p

\* The match that starts at p, where s[p] is an upper-case letter.
MatchAt(s, p) ==
    LET e1 == Star(s, p + 1, Lower)
        d1 == Star(s, e1, Digit)
        d2 == IF d1 <= Len(s) /\ s[d1] = Dot THEN d1 + 1 ELSE d1
        d3 == Star(s, d2, Digit)
    IN  [elem |-> SubSeq(s, p, e1 - 1), count |-> SubSeq(s, e1, d3 - 1), end |-> d3]

RECURSIVE FindAllFrom(_, _)
FindAllFrom(s, p) ==
    IF p > Len(s) THEN <<>>
    ELSE IF s[p] \in Upper
         THEN LET m == MatchAt(s, p)
              IN  <<[elem |-> m.elem, count |-> m.count]>> \o FindAllFrom(s, m.end)
         ELSE FindAllFrom(s, p + 1)

findall(formula) == FindAllFrom(formula, 1)

\* float(count) for a string of digits with at most one '.': Python raises
\* ValueError when the string holds no digit.
RECURSIVE DigitsVal(_)
DigitsVal(ds) ==
    IF ds = <<>> THEN 0
    ELSE 10 * DigitsVal(SubSeq(ds, 1, Len(ds) - 1)) + DigitVal(ds[Len(ds)])

float(count) ==
    LET dot == Star(count, 1, Digit)
        ip == SubSeq(count, 1, dot - 1)
        fp == SubSeq(count, dot + 1, Len(count))
    IN  IF ip = <<>> /\ fp = <<>>
        THEN Raise("ValueError")
        ELSE Return(Float(DigitsVal(ip) * Pow10(Len(fp)) + DigitsVal(fp), Pow10(Len(fp))))

-----------------------------------------------------------------------------
(* parse_formula *)

\* count = float(count) if count else 1.0
token_count(count) == IF count # <<>> THEN float(count) ELSE Return(FromInt(1))

\* elements[elem] = elements.get(elem, 0) + count
accumulate(elements, elem, count) ==
    DictSet(elements, elem, FAdd(DictGet(elements, elem, FromInt(0)), count))

RECURSIVE parse_loop(_, _)
parse_loop(matches, elements) ==
    IF matches = <<>> THEN Return(elements)
    ELSE LET c == token_count(Head(matches).count)
         IN  IF c.kind = "raise" THEN c
             ELSE parse_loop(Tail(matches), accumulate(elements, Head(matches).elem, c.value))

parse_formula(formula) == parse_loop(findall(formula), <<>>)

-----------------------------------------------------------------------------
(* Elemental properties table (elemental_properties_df): Symbol ->         *)
(* [w: Atomic weight, cs: Neutron Cross Section, ma: Neutron Mass Absorption] *)

H == <<"H">>
G == <<"G">>
Gd == <<"G", "d">>

Row(w, cs, ma) == [w |-> FromInt(w), cs |-> FromInt(cs), ma |-> FromInt(ma)]

TableFull == (H :> Row(1, 3, 2)) @@ (G :> Row(4, 5, 7)) @@ (Gd :> Row(2, 8, 1))
\* The cross sections of TableFull under other weights and mass absorptions.
TableAlt == (H :> Row(5, 3, 1)) @@ (G :> Row(1, 5, 4)) @@ (Gd :> Row(3, 8, 6))
TableH == (H :> Row(1, 3, 2))
\* Every atomic weight zero.
TableZeroWeight == (H :> Row(0, 3, 2)) @@ (G :> Row(0, 5, 7))

Tables == {TableFull, TableAlt, TableH, TableZeroWeight}

\* elemental_properties_df.set_index("Symbol")[column].to_dict(); the order of
\* the rows is the order of the symbols below.
SymbolOrder == <<H, G, Gd>>

RECURSIVE column_from(_, _, _)
column_from(df, column, i) ==
    IF i > Len(SymbolOrder) THEN <<>>
    ELSE IF SymbolOrder[i] \in DOMAIN df
         THEN <<[k |-> SymbolOrder[i], v |-> df[SymbolOrder[i]][column]]>>
                  \o column_from(df, column, i + 1)
         ELSE column_from(df, column, i + 1)

\* Mutant: the column asked for is ignored and the atomic weights are read.
to_dict_atomic_weight(df, column) == column_from(df, "w", 1)

to_dict(df, column) == column_from(df, column, 1)

\* set(elemental_properties_df["Symbol"].unique())
symbols_of(df) == DOMAIN df

-----------------------------------------------------------------------------
(* is_valid_formula *)

is_valid_formula(formula, valid_elements) ==
    LET parsed_elements == parse_formula(formula)
    IN  IF parsed_elements.kind = "raise" THEN parsed_elements
        ELSE Return(DictKeys(parsed_elements.value) \subseteq valid_elements)

-----------------------------------------------------------------------------
(* The steps of the two aggregators *)

\* Mutant: a zero total is guarded and gives zero fractions.
atomic_fractions_guarded(parsed_elements, total_atoms) ==
    Return([i \in 1..Len(parsed_elements) |->
               [k |-> parsed_elements[i].k,
                v |-> IF IsZero(total_atoms) THEN FromInt(0)
                      ELSE FDiv(parsed_elements[i].v, total_atoms)]])

\* {element: count / total_atoms for element, count in parsed_elements.items()}
atomic_fractions(parsed_elements, total_atoms) ==
    IF parsed_elements # <<>> /\ IsZero(total_atoms)
    THEN Raise("ZeroDivisionError")
    ELSE Return([i \in 1..Len(parsed_elements) |->
                    [k |-> parsed_elements[i].k,
                     v |-> FDiv(parsed_elements[i].v, total_atoms)]])

\* Mutant: mass = count, the atomic weight is left out.
RECURSIVE mass_loop_unweighted(_, _, _, _)
mass_loop_unweighted(items, atomic_weights, total_mass, mass_contributions) ==
    IF items = <<>> THEN <<total_mass, mass_contributions>>
    ELSE mass_loop_unweighted(Tail(items), atomic_weights,
                              FAdd(total_mass, Head(items).v),
                              DictSet(mass_contributions, Head(items).k, Head(items).v))

\* The loop over parsed_elements.items(): mass = count * weight;
\* mass_contributions[element] = mass; total_mass += mass.
RECURSIVE mass_loop(_, _, _, _)
mass_loop(items, atomic_weights, total_mass, mass_contributions) ==
    IF items = <<>> THEN <<total_mass, mass_contributions>>
    ELSE LET weight == DictGet(atomic_weights, Head(items).k, FromInt(0))
             mass == FMul(Head(items).v, weight)
         IN  mass_loop(Tail(items), atomic_weights, FAdd(total_mass, mass),
                       DictSet(mass_contributions, Head(items).k, mass))

\* {element: mass / total_mass for element, mass in mass_contributions.items()}
mass_fractions(mass_contributions, total_mass) ==
    IF mass_contributions # <<>> /\ IsZero(total_mass)
    THEN Raise("ZeroDivisionError")
    ELSE Return([i \in 1..Len(mass_contributions) |->
                    [k |-> mass_contributions[i].k,
                     v |-> FDiv(mass_contributions[i].v, total_mass)]])

\* The loop over fractions.items(): contributions[element] = fraction *
\* table.get(element, 0); total += contributions[element].
RECURSIVE weighted_sum(_, _, _, _)
weighted_sum(fractions, table, total, contributions) ==
    IF fractions = <<>> THEN <<total, contributions>>
    ELSE LET element == Head(fractions).k
             c == FMul(Head(fractions).v, DictGet(table, element, FromInt(0)))
         IN  weighted_sum(Tail(fractions), table, FAdd(total, c),
                          DictSet(contributions, element, c))

-----------------------------------------------------------------------------
(* calculate_compound_neutron_cross_section *)

\* Mutant: the cross sections are weighted by mass fraction.
cross_section_by_mass_fraction(formula, elemental_properties_df) ==
    LET parsed_elements == parse_formula(formula)
    IN  IF parsed_elements.kind = "raise" THEN parsed_elements
        ELSE LET atomic_weights == to_dict(elemental_properties_df, "w")
                 cross_sections == to_dict(elemental_properties_df, "cs")
                 masses == mass_loop(parsed_elements.value, atomic_weights,
                                     FromInt(0), <<>>)
                 fractions == mass_fractions(masses[2], masses[1])
             IN  IF fractions.kind = "raise" THEN fractions
                 ELSE Return(weighted_sum(fractions.value, cross_sections,
                                          FromInt(0), <<>>))

calculate_compound_neutron_cross_section(formula, elemental_properties_df) ==
    LET parsed_elements == parse_formula(formula)
    IN  IF parsed_elements.kind = "raise" THEN parsed_elements
        ELSE LET total_atoms == DictSum(parsed_elements.value)
                 fractions == atomic_fractions(parsed_elements.value, total_atoms)
                 cross_sections == to_dict(elemental_properties_df, "cs")
             IN  IF fractions.kind = "raise" THEN fractions
                 ELSE Return(weighted_sum(fractions.value, cross_sections,
                                          FromInt(0), <<>>))

-----------------------------------------------------------------------------
(* calculate_compound_neutron_mass_absorption *)

calculate_compound_neutron_mass_absorption(formula, elemental_properties_df) ==
    LET parsed_elements == parse_formula(formula)
    IN  IF parsed_elements.kind = "raise" THEN parsed_elements
        ELSE LET atomic_weights == to_dict(elemental_properties_df, "w")
                 mass_absorptions == to_dict(elemental_properties_df, "ma")
                 masses == mass_loop(parsed_elements.value, atomic_weights,
                                     FromInt(0), <<>>)
                 fractions == mass_fractions(masses[2], masses[1])
             IN  IF fractions.kind = "raise" THEN fractions
                 ELSE Return(weighted_sum(fractions.value, mass_absorptions,
                                          FromInt(0), <<>>))

-----------------------------------------------------------------------------
(* create_plotting_dataframe *)

\* The loop over compounds_df.iloc[:, 0]; an exception of any call ends it.
RECURSIVE plotting_loop(_, _, _)
plotting_loop(formulas, elemental_properties_df, data) ==
    IF formulas = <<>> THEN Return(data)
    ELSE LET formula == Head(formulas)
             valid == is_valid_formula(formula, symbols_of(elemental_properties_df))
         IN  IF valid.kind = "raise" THEN valid
             ELSE IF ~valid.value
                  THEN plotting_loop(Tail(formulas), elemental_properties_df, data)
                  ELSE LET cs == calculate_compound_neutron_cross_section(
                                     formula, elemental_properties_df)
                           ma == calculate_compound_neutron_mass_absorption(
                                     formula, elemental_properties_df)
                       IN  IF cs.kind = "raise" THEN cs
                           ELSE IF ma.kind = "raise" THEN ma
                           ELSE plotting_loop(Tail(formulas), elemental_properties_df,
                                    Append(data, [Formula |-> formula,
                                                  cross_section |-> cs.value[1],
                                                  mass_absorption |-> ma.value[1]]))

create_plotting_dataframe(compounds_df, elemental_properties_df) ==
    plotting_loop(compounds_df, elemental_properties_df, <<>>)

-----------------------------------------------------------------------------
(* plot_zoom_scatter (src/plot.py) *)

ZoomCrossSectionMin == 34500
ZoomMassAbsorptionMin == 5
RedSum == 1
GreenSum == 14

FGt(x, y) == x[1] * y[2] > y[1] * x[2]

\* plotting_df[(cross section > 34500) & (mass absorption > 5)]
zoom_filter(plotting_df) ==
    SelectSeq(plotting_df,
              LAMBDA row : /\ FGt(row.cross_section, FromInt(ZoomCrossSectionMin))
                           /\ FGt(row.mass_absorption, FromInt(ZoomMassAbsorptionMin)))

\* if sum_indices in [1] ... elif sum_indices == 14 ... else
marker_color(sum_indices) ==
    IF sum_indices \in {FromInt(RedSum)} THEN "red"
    ELSE IF sum_indices = FromInt(GreenSum) THEN "green"
    ELSE "#0348a1"

\* The loop over filtered_df.iterrows(): one plt.scatter and one plt.annotate
\* per row.
RECURSIVE zoom_loop(_, _, _)
zoom_loop(rows, scatter, annotate) ==
    IF rows = <<>> THEN Return([scatter |-> scatter, annotate |-> annotate])
    ELSE LET row == Head(rows)
             element_counts == parse_formula(row.Formula)
         IN  IF element_counts.kind = "raise" THEN element_counts
             ELSE LET sum_indices == DictSum(element_counts.value)
                      xy == <<row.cross_section, row.mass_absorption>>
                  IN  zoom_loop(Tail(rows),
                          Append(scatter, [xy |-> xy, color |-> marker_color(sum_indices)]),
                          Append(annotate, [text |-> row.Formula, xy |-> xy]))

plot_zoom_scatter(plotting_df) == zoom_loop(zoom_filter(plotting_df), <<>>, <<>>)

-----------------------------------------------------------------------------
(* State *)

VARIABLES fn, args, ret, pc

vars == <<fn, args, ret, pc>>

\* The formulas of a compounds data frame.
BatchFormulas ==
    { <<>>, <<"H">>, <<"H", "1", "1", "G">>, <<"G", "d">>, <<"H", "d">>,
      <<"H", "0">>, <<"H", ".">>, <<"d", "G", ".", "1">> }

SeqsUpTo(S, n) == UNION {[1..k -> S] : k \in 0..n}

ValidSets == {{}, {H, G}, {H, G, Gd}}

\* The rows of a plotting data frame.
PlotFormulas ==
    { <<"H">>, <<"H", "1", "0">>, <<"H", "1", "4">>, <<"H", "G">> }

PlotRows ==
    [Formula : PlotFormulas,
     cross_section : {FromInt(ZoomCrossSectionMin), FromInt(ZoomCrossSectionMin + 1)},
     mass_absorption : {FromInt(ZoomMassAbsorptionMin), FromInt(ZoomMassAbsorptionMin + 1)}]

NotYet == [kind |-> "pending"]

Init ==
    /\ pc = "call"
    /\ ret = NotYet
    /\ \/ fn = "parse_formula" /\ args \in [formula : Formulas]
       \/ fn = "is_valid_formula"
            /\ args \in [formula : Formulas, valid_elements : ValidSets]
       \/ fn = "calculate_compound_neutron_cross_section"
            /\ args \in [formula : Formulas, elemental_properties_df : Tables]
       \/ fn = "calculate_compound_neutron_mass_absorption"
            /\ args \in [formula : Formulas, elemental_properties_df : Tables]
       \/ fn = "create_plotting_dataframe"
            /\ args \in [compounds_df : SeqsUpTo(BatchFormulas, MaxRows),
                         elemental_properties_df : Tables]
       \/ fn = "plot_zoom_scatter"
            /\ args \in [plotting_df : SeqsUpTo(PlotRows, MaxRows)]

Done(r) == pc' = "done" /\ ret' = r /\ UNCHANGED <<fn, args>>

Call_parse_formula ==
    /\ pc = "call" /\ fn = "parse_formula"
    /\ Done(parse_formula(args.formula))

Call_is_valid_formula ==
    /\ pc = "call" /\ fn = "is_valid_formula"
    /\ Done(is_valid_formula(args.formula, args.valid_elements))

Call_cross_section ==
    /\ pc = "call" /\ fn = "calculate_compound_neutron_cross_section"
    /\ Done(calculate_compound_neutron_cross_section(
                args.formula, args.elemental_properties_df))

Call_mass_absorption ==
    /\ pc = "call" /\ fn = "calculate_compound_neutron_mass_absorption"
    /\ Done(calculate_compound_neutron_mass_absorption(
                args.formula, args.elemental_properties_df))

Call_create_plotting_dataframe ==
    /\ pc = "call" /\ fn = "create_plotting_dataframe"
    /\ Done(create_plotting_dataframe(
                args.compounds_df, args.elemental_properties_df))

Call_plot_zoom_scatter ==
    /\ pc = "call" /\ fn = "plot_zoom_scatter"
    /\ Done(plot_zoom_scatter(args.plotting_df))

Next ==
    \/ Call_parse_formula
    \/ Call_is_valid_formula
    \/ Call_cross_section
    \/ Call_mass_absorption
    \/ Call_create_plotting_dataframe
    \/ Call_plot_zoom_scatter

Spec == Init /\ [][Next]_vars

-----------------------------------------------------------------------------
(* The vocabulary of the specification, stated on the formula string       *)
(* itself: no scan, no loop, no dict.                                      *)

\* Sum of the values of f over the finite set S.
RECURSIVE SumOver(_, _)
SumOver(S, f) ==
    IF S = {} THEN FromInt(0)
    ELSE LET x == CHOOSE y \in S : TRUE
         IN  FAdd(f[x], SumOver(S \ {x}, f))

\* A token starts at every upper-case letter.
TokenStarts(s) == {p \in 1..Len(s) : s[p] \in Upper}

\* Last position of the symbol of the token at p: the lower-case run ends.
SymbolEnd(s, p) ==
    CHOOSE q \in p..Len(s) :
        /\ \A i \in (p + 1)..q : s[i] \in Lower
        /\ q = Len(s) \/ s[q + 1] \notin Lower

\* Digits with at most one decimal point.
NumberShaped(t) ==
    /\ \A i \in 1..Len(t) : t[i] \in Digit \cup {Dot}
    /\ Cardinality({i \in 1..Len(t) : t[i] = Dot}) <= 1

\* Last position of the suffix of the token at p: the longest number-shaped
\* string after the symbol.
SuffixEnd(s, p) ==
    LET q == SymbolEnd(s, p)
    IN  CHOOSE r \in q..Len(s) :
            /\ NumberShaped(SubSeq(s, q + 1, r))
            /\ \A r2 \in (r + 1)..Len(s) : ~NumberShaped(SubSeq(s, q + 1, r2))

TokenSymbol(s, p) == SubSeq(s, p, SymbolEnd(s, p))
TokenSuffix(s, p) == SubSeq(s, SymbolEnd(s, p) + 1, SuffixEnd(s, p))

HasDigit(t) == \E i \in 1..Len(t) : t[i] \in Digit

\* The number a suffix with a digit denotes, digit by place value.
NumericValue(t) ==
    LET m == Len(t)
        dot == IF \E i \in 1..m : t[i] = Dot
               THEN CHOOSE i \in 1..m : t[i] = Dot ELSE m + 1
        Place(i) == IF i < dot
                    THEN FromInt(DigitVal(t[i]) * Pow10(dot - i - 1))
                    ELSE Float(DigitVal(t[i]), Pow10(i - dot))
    IN  SumOver({i \in 1..m : t[i] \in Digit}, [i \in 1..m |-> Place(i)])

\* Index of the token at p: its suffix's value, 1.0 without a suffix.
TokenIndex(s, p) ==
    IF TokenSuffix(s, p) = <<>> THEN FromInt(1) ELSE NumericValue(TokenSuffix(s, p))

Symbols(s) == {TokenSymbol(s, p) : p \in TokenStarts(s)}

\* Every suffix of s denotes a number: s has a parsed formula.
Parses(s) ==
    \A p \in TokenStarts(s) : TokenSuffix(s, p) = <<>> \/ HasDigit(TokenSuffix(s, p))

\* Index of element e in the parsed formula of s.
Count(s, e) ==
    SumOver({p \in TokenStarts(s) : TokenSymbol(s, p) = e},
            [p \in TokenStarts(s) |-> TokenIndex(s, p)])

TotalIndex(s) == SumOver(Symbols(s), [e \in Symbols(s) |-> Count(s, e)])

\* A property of element e in table t, 0 when e is absent.
Property(t, e, column) == IF e \in DOMAIN t THEN t[e][column] ELSE FromInt(0)

Mass(s, t, e) == FMul(Count(s, e), Property(t, e, "w"))
TotalMass(s, t) == SumOver(Symbols(s), [e \in Symbols(s) |-> Mass(s, t, e)])

UniqueKeys(d) == \A i, j \in 1..Len(d) : d[i].k = d[j].k => i = j

Returned(f) == pc = "done" /\ fn = f

-----------------------------------------------------------------------------
(* Claims *)

\* C1: for every formula string parse_formula returns a mapping with one
\* entry per distinct element symbol, and the index stored for a symbol is
\* the sum of the indices of all the tokens that carry that symbol.
C1_SummedIndices ==
    Returned("parse_formula") =>
        /\ ret.kind = "return"
        /\ UniqueKeys(ret.value)
        /\ DictKeys(ret.value) = Symbols(args.formula)
        /\ \A i \in 1..Len(ret.value) :
               ret.value[i].v = Count(args.formula, ret.value[i].k)

\* C1 on the strings the parser returns for: the sums are right wherever
\* float() does not raise.
C1_SummedIndicesWhenParsed ==
    (Returned("parse_formula") /\ ret.kind = "return") =>
        /\ UniqueKeys(ret.value)
        /\ DictKeys(ret.value) = Symbols(args.formula)
        /\ \A i \in 1..Len(ret.value) :
               ret.value[i].v = Count(args.formula, ret.value[i].k)

\* C2: every token's index resolves to the value of its suffix when a suffix
\* is present and to 1.0 when it is absent; "<Symbol><int>" parses to
\* {Symbol: int} and "<Symbol>" to {Symbol: 1.0}.
C2_TokenIndex ==
    Returned("parse_formula") =>
        LET s == args.formula
            matches == findall(s)
        IN  /\ \A i \in 1..Len(matches) :
                   token_count(matches[i].count) =
                       Return(IF matches[i].count = <<>> THEN FromInt(1)
                              ELSE NumericValue(matches[i].count))
            /\ ret.kind = "return"
            /\ (TokenStarts(s) = {1} /\ SuffixEnd(s, 1) = Len(s)
                    /\ \A i \in (SymbolEnd(s, 1) + 1)..Len(s) : s[i] \in Digit)
                 => ret.value = <<[k |-> TokenSymbol(s, 1), v |-> TokenIndex(s, 1)]>>

\* C2 on the tokens whose suffix holds a digit or is empty.
C2_TokenIndexWhenNumeric ==
    Returned("parse_formula") =>
        LET s == args.formula
            matches == findall(s)
        IN  /\ \A i \in 1..Len(matches) :
                   (matches[i].count = <<>> \/ HasDigit(matches[i].count)) =>
                       token_count(matches[i].count) =
                           Return(IF matches[i].count = <<>> THEN FromInt(1)
                                  ELSE NumericValue(matches[i].count))
            /\ (TokenStarts(s) = {1} /\ SuffixEnd(s, 1) = Len(s)
                    /\ \A i \in (SymbolEnd(s, 1) + 1)..Len(s) : s[i] \in Digit)
                 => ret = Return(<<[k |-> TokenSymbol(s, 1), v |-> TokenIndex(s, 1)]>>)

\* C3: for a parsed formula with non-zero total index, the cross section's
\* contributions[e] = (count_e / sum of counts) * crossSection(e), with
\* crossSection(e) = 0 for e absent from the table, the total is the sum of
\* the contributions, and the atomic weights play no part.
C3_CrossSection ==
    (/\ Returned("calculate_compound_neutron_cross_section")
     /\ Parses(args.formula)
     /\ ~IsZero(TotalIndex(args.formula))) =>
        LET s == args.formula
            t == args.elemental_properties_df
            Contribution(e) ==
                FMul(FDiv(Count(s, e), TotalIndex(s)), Property(t, e, "cs"))
        IN  /\ ret.kind = "return"
            /\ UniqueKeys(ret.value[2])
            /\ DictKeys(ret.value[2]) = Symbols(s)
            /\ \A i \in 1..Len(ret.value[2]) :
                   ret.value[2][i].v = Contribution(ret.value[2][i].k)
            /\ ret.value[1] = SumOver(Symbols(s), [e \in Symbols(s) |-> Contribution(e)])
            /\ \A t2 \in Tables :
                   (/\ DOMAIN t2 = DOMAIN t
                    /\ \A e \in DOMAIN t : t2[e].cs = t[e].cs)
                   => calculate_compound_neutron_cross_section(s, t2) = ret

\* C3's case: two elements with different counts, one of them absent from
\* the table.
C3_Witness ==
    /\ Returned("calculate_compound_neutron_cross_section")
    /\ ret.kind = "return"
    /\ args.formula = <<"H", "1", "1", "G">>
    /\ args.elemental_properties_df = TableH
    /\ ret.value[1] = Float(11, 4)
    /\ ret.value[2][2] = [k |-> G, v |-> FromInt(0)]

\* C4: for a parsed formula with non-zero total mass, the mass absorption's
\* contributions[e] = (count_e * weight(e) / total mass) * massAbsorption(e),
\* weight and massAbsorption 0 for e absent from the table, and the total is
\* the sum of the contributions: the weights are mass fractions.
C4_MassAbsorption ==
    (/\ Returned("calculate_compound_neutron_mass_absorption")
     /\ Parses(args.formula)
     /\ ~IsZero(TotalMass(args.formula, args.elemental_properties_df))) =>
        LET s == args.formula
            t == args.elemental_properties_df
            Contribution(e) ==
                FMul(FDiv(Mass(s, t, e), TotalMass(s, t)), Property(t, e, "ma"))
        IN  /\ ret.kind = "return"
            /\ UniqueKeys(ret.value[2])
            /\ DictKeys(ret.value[2]) = Symbols(s)
            /\ \A i \in 1..Len(ret.value[2]) :
                   ret.value[2][i].v = Contribution(ret.value[2][i].k)
            /\ ret.value[1] = SumOver(Symbols(s), [e \in Symbols(s) |-> Contribution(e)])

\* C4's case: H11G under weights 1 and 4: mass fractions 11/15 and 4/15 where
\* the atomic fractions are 11/12 and 1/12.
C4_Witness ==
    /\ Returned("calculate_compound_neutron_mass_absorption")
    /\ ret.kind = "return"
    /\ args.formula = <<"H", "1", "1", "G">>
    /\ args.elemental_properties_df = TableFull
    /\ ret.value[1] = Float(10, 3)

SingleElement(s, t) ==
    /\ Parses(s)
    /\ Cardinality(Symbols(s)) = 1
    /\ Symbols(s) \subseteq DOMAIN t

TheElement(s) == CHOOSE e \in Symbols(s) : TRUE

\* C5 as claimed: for a formula that parses to a single element, whatever
\* its index, and a table that holds the element, both aggregators return
\* the element's reference value as the total.
C5_SingleElementAnyIndex ==
    /\ (/\ Returned("calculate_compound_neutron_cross_section")
        /\ SingleElement(args.formula, args.elemental_properties_df))
       => /\ ret.kind = "return"
          /\ ret.value[1] = args.elemental_properties_df[TheElement(args.formula)].cs
    /\ (/\ Returned("calculate_compound_neutron_mass_absorption")
        /\ SingleElement(args.formula, args.elemental_properties_df))
       => /\ ret.kind = "return"
          /\ ret.value[1] = args.elemental_properties_df[TheElement(args.formula)].ma

\* C5 amended: the same for a single element of non-zero index and, for the
\* mass absorption, of non-zero atomic weight.
C5_SingleElementNonZero ==
    /\ (/\ Returned("calculate_compound_neutron_cross_section")
        /\ SingleElement(args.formula, args.elemental_properties_df)
        /\ ~IsZero(Count(args.formula, TheElement(args.formula))))
       => /\ ret.kind = "return"
          /\ ret.value[1] = args.elemental_properties_df[TheElement(args.formula)].cs
    /\ (/\ Returned("calculate_compound_neutron_mass_absorption")
        /\ SingleElement(args.formula, args.elemental_properties_df)
        /\ ~IsZero(Count(args.formula, TheElement(args.formula)))
        /\ ~IsZero(args.elemental_properties_df[TheElement(args.formula)].w))
       => /\ ret.kind = "return"
          /\ ret.value[1] = args.elemental_properties_df[TheElement(args.formula)].ma

\* C5's case: one element, written in two tokens with a fractional index.
C5_Witness ==
    /\ Returned("calculate_compound_neutron_mass_absorption")
    /\ args.formula = <<"G", ".", "1", "G">>
    /\ args.elemental_properties_df = TableFull
    /\ ret = Return(<<FromInt(7), <<[k |-> G, v |-> FromInt(7)]>>>>)

\* C6: is_valid_formula returns true exactly when every element symbol of
\* the formula is in the valid set.
C6_ValidIffSubset ==
    Returned("is_valid_formula") =>
        /\ ret.kind = "return"
        /\ ret.value = (\A p \in TokenStarts(args.formula) :
                            TokenSymbol(args.formula, p) \in args.valid_elements)

\* C6 on the strings the parser returns for.
C6_ValidIffSubsetWhenParsed ==
    (Returned("is_valid_formula") /\ ret.kind = "return") =>
        ret.value = (\A p \in TokenStarts(args.formula) :
                         TokenSymbol(args.formula, p) \in args.valid_elements)

\* C7: create_plotting_dataframe yields one record per valid formula, in
\* input order, none for an invalid formula, and no formula makes it fail.
C7_OneRecordPerValidFormula ==
    Returned("create_plotting_dataframe") =>
        LET t == args.elemental_properties_df
            valid == SelectSeq(args.compounds_df,
                               LAMBDA f : Symbols(f) \subseteq DOMAIN t)
        IN  /\ ret.kind = "return"
            /\ Len(ret.value) = Len(valid)
            /\ \A i \in 1..Len(valid) : ret.value[i].Formula = valid[i]

\* C7 on the batches whose formulas all parse and whose valid formulas have a
\* non-zero total index and mass.
C7_OneRecordPerValidFormulaWhenDefined ==
    (/\ Returned("create_plotting_dataframe")
     /\ \A i \in 1..Len(args.compounds_df) :
            LET f == args.compounds_df[i]
                t == args.elemental_properties_df
            IN  /\ Parses(f)
                /\ (Symbols(f) \subseteq DOMAIN t /\ Symbols(f) # {})
                     => ~IsZero(TotalIndex(f)) /\ ~IsZero(TotalMass(f, t))) =>
        LET t == args.elemental_properties_df
            valid == SelectSeq(args.compounds_df,
                               LAMBDA f : Symbols(f) \subseteq DOMAIN t)
        IN  /\ ret.kind = "return"
            /\ Len(ret.value) = Len(valid)
            /\ \A i \in 1..Len(valid) : ret.value[i].Formula = valid[i]

\* C8 as claimed: a zero total index, the empty parsed formula included,
\* makes the cross section divide by zero; a zero total mass makes the mass
\* absorption divide by zero.
C8_ZeroTotalAlwaysRaises ==
    /\ (/\ Returned("calculate_compound_neutron_cross_section")
        /\ Parses(args.formula)
        /\ IsZero(TotalIndex(args.formula)))
       => ret = Raise("ZeroDivisionError")
    /\ (/\ Returned("calculate_compound_neutron_mass_absorption")
        /\ Parses(args.formula)
        /\ IsZero(TotalMass(args.formula, args.elemental_properties_df)))
       => ret = Raise("ZeroDivisionError")

\* C8 amended: a zero total index (total mass) of a parsed formula that has
\* an element divides by zero; the empty parsed formula divides nothing and
\* returns the total 0.0 with no contributions.
C8_ZeroTotalRaisesUnlessEmpty ==
    /\ (/\ Returned("calculate_compound_neutron_cross_section")
        /\ Parses(args.formula)
        /\ IsZero(TotalIndex(args.formula)))
       => ret = IF Symbols(args.formula) # {}
                THEN Raise("ZeroDivisionError")
                ELSE Return(<<FromInt(0), <<>>>>)
    /\ (/\ Returned("calculate_compound_neutron_mass_absorption")
        /\ Parses(args.formula)
        /\ IsZero(TotalMass(args.formula, args.elemental_properties_df)))
       => ret = IF Symbols(args.formula) # {}
                THEN Raise("ZeroDivisionError")
                ELSE Return(<<FromInt(0), <<>>>>)

\* C8's case: the mass absorption of a formula of non-zero index whose
\* elements all weigh zero.
C8_Witness ==
    /\ Returned("calculate_compound_neutron_mass_absorption")
    /\ args.formula = <<"H", "1", "1", "G">>
    /\ args.elemental_properties_df = TableZeroWeight
    /\ ret = Raise("ZeroDivisionError")

\* C9: every suffix the token pattern captures converts to a number, so
\* parse_formula never fails: characters outside any token are ignored and
\* a string without a token yields the empty mapping.
C9_NeverFails ==
    Returned("parse_formula") =>
        /\ \A i \in 1..Len(findall(args.formula)) :
               LET count == findall(args.formula)[i].count
               IN  NumberShaped(count) /\ token_count(count).kind = "return"
        /\ ret.kind = "return"
        /\ TokenStarts(args.formula) = {} => ret.value = <<>>

\* C9 on the strings none of whose captured suffixes is a lone '.'.
C9_NeverFailsWithoutLoneDot ==
    (/\ Returned("parse_formula")
     /\ \A i \in 1..Len(findall(args.formula)) :
            findall(args.formula)[i].count # <<Dot>>) =>
        /\ ret.kind = "return"
        /\ TokenStarts(args.formula) = {} => ret.value = <<>>

\* C10: in plot_zoom_scatter a marker is red when the sum of its formula's
\* indices is 1 or 10, green when it is 14, blue (#0348a1) otherwise, and
\* only the markers that are not red are labelled with their formula.
C10_ColourAndLabel ==
    Returned("plot_zoom_scatter") =>
        LET rows == SelectSeq(args.plotting_df,
                        LAMBDA row :
                            /\ FGt(row.cross_section, FromInt(ZoomCrossSectionMin))
                            /\ FGt(row.mass_absorption, FromInt(ZoomMassAbsorptionMin)))
            Colour(f) == IF TotalIndex(f) \in {FromInt(1), FromInt(10)} THEN "red"
                         ELSE IF TotalIndex(f) = FromInt(14) THEN "green"
                         ELSE "#0348a1"
            labelled == SelectSeq(rows, LAMBDA row : Colour(row.Formula) # "red")
        IN  /\ ret.kind = "return"
            /\ Len(ret.value.scatter) = Len(rows)
            /\ \A i \in 1..Len(rows) :
                   ret.value.scatter[i].color = Colour(rows[i].Formula)
            /\ Len(ret.value.annotate) = Len(labelled)
            /\ \A i \in 1..Len(labelled) :
                   ret.value.annotate[i].text = labelled[i].Formula

====
